---- MODULE Spec2Model ----
(***************************************************************************)
(* A model of kerala_rag_demo.py: the SimpleRAGSystem class (chunking of   *)
(* documents into a chunk store, hybrid lexical retrieval, answer          *)
(* assembly).  Python strings are sequences of one-character strings, so   *)
(* the regular expressions and string methods of the source are computed   *)
(* character by character.                                                  *)
(***************************************************************************)
EXTENDS Integers, Sequences, FiniteSets, TLC

VARIABLES
    documents,      \* self.documents: the chunk store, a sequence of Document
    corpus_loaded,  \* self.corpus_loaded
    last,           \* the most recent call on the object and what it returned
    ncalls,         \* number of load_corpus calls made so far (bounded)
    slug_pc,        \* position of the _slugify round trip
    slug_text,      \* the input of the _slugify round trip
    slug_once,      \* _slugify(slug_text)
    slug_twice      \* _slugify(_slugify(slug_text))

vars == <<documents, corpus_loaded, last, ncalls,
          slug_pc, slug_text, slug_once, slug_twice>>
ragvars == <<documents, corpus_loaded, last, ncalls>>
slugvars == <<slug_pc, slug_text, slug_once, slug_twice>>

-----------------------------------------------------------------------------
(* Bounds of the model *)

\* load_corpus calls in one run
MaxLoads == 2
\* chunks in the chunk store
MaxChunks == 8
\* longest input string of the _slugify round trip
MaxSlugLen == 4

-----------------------------------------------------------------------------
(* Characters and the str methods of Python the source uses *)

UpperChars == <<"A","B","C","D","E","F","G","H","I","J","K","L","M",
                "N","O","P","Q","R","S","T","U","V","W","X","Y","Z">>
LowerChars == <<"a","b","c","d","e","f","g","h","i","j","k","l","m",
                "n","o","p","q","r","s","t","u","v","w","x","y","z">>
DigitChars == <<"0","1","2","3","4","5","6","7","8","9">>

Range(f) == {f[i] : i \in DOMAIN f}
UpperSet == Range(UpperChars)
LowerSet == Range(LowerChars)
DigitSet == Range(DigitChars)

SlugSet == LowerSet \cup DigitSet
WordSet == LowerSet \cup UpperSet \cup DigitSet \cup {"_"}
SpaceSet == {" ", "\n", "\r", "\t"}

\* the class \s of re, and the characters str.strip() removes
IsSpace(c) == c \in SpaceSet

\* a character class of a regular expression: the characters of chars, or
\* (neg) every character outside chars
CharClass(chars, neg) == [chars |-> chars, neg |-> neg]
InClass(cls, c) == (c \in cls.chars) # cls.neg
ClsSpace == CharClass(SpaceSet, FALSE)
ClsDigit == CharClass(DigitSet, FALSE)
ClsWord == CharClass(WordSet, FALSE)
ClsNotWord == CharClass(WordSet, TRUE)
ClsUnderscore == CharClass({"_"}, FALSE)
\* the class [^a-z0-9] of the regular expression in _slugify
ClsNotSlug == CharClass(SlugSet, TRUE)

LowerOf ==
    [c \in UpperSet |->
        LowerChars[CHOOSE i \in DOMAIN UpperChars : UpperChars[i] = c]]

\* str.lower() on one character
LowerChar(c) == IF c \in UpperSet THEN LowerOf[c] ELSE c

\* the sequence f as a tuple whose elements are computed once
Tuple(f) == SubSeq(f, 1, Len(f))

\* str.lower()
lower(s) == Tuple([i \in 1..Len(s) |-> LowerChar(s[i])])

Indices(s) == [i \in 1..Len(s) |-> i]

\* s[a:b] of Python with 0 <= a, 0 <= b (0-based, end exclusive)
Slice(s, a, b) ==
    LET e == IF b > Len(s) THEN Len(s) ELSE b
    IN IF a >= e THEN <<>> ELSE SubSeq(s, a + 1, e)

SetMin(S) == CHOOSE x \in S : \A y \in S : x <= y
SetMax(S) == CHOOSE x \in S : \A y \in S : x >= y

\* first index >= i of s whose character is not in the class, or Len(s)+1
SkipWhile(s, i, cls) ==
    CHOOSE k \in i..(Len(s) + 1) :
        /\ k = Len(s) + 1 \/ ~InClass(cls, s[k])
        /\ \A m \in i..(k - 1) : InClass(cls, s[m])

\* last index <= i of s whose character is not in the class, or 0
SkipBack(s, i, cls) ==
    LET out == {k \in 1..i : ~InClass(cls, s[k])}
    IN IF out = {} THEN 0 ELSE SetMax(out)

\* str.strip(chars): drop the leading and trailing characters of the class
StripClass(s, cls) ==
    LET a == SkipWhile(s, 1, cls)
        b == SkipBack(s, Len(s), cls)
    IN IF a > b THEN <<>> ELSE SubSeq(s, a, b)

\* str.strip()
strip(s) == StripClass(s, ClsSpace)

\* x in s for strings: x is a contiguous substring of s
Contains(s, x) ==
    \E i \in 0..(Len(s) - Len(x)) :
        \A j \in 1..Len(x) : s[i + j] = x[j]

\* s[i..] starts with x (1-based i)
StartsAt(s, i, x) ==
    /\ i + Len(x) - 1 <= Len(s)
    /\ \A j \in 1..Len(x) : s[i + j - 1] = x[j]

\* sep.join(parts)
RECURSIVE Join(_, _)
Join(parts, sep) ==
    IF parts = <<>> THEN <<>>
    ELSE IF Len(parts) = 1 THEN parts[1]
    ELSE parts[1] \o sep \o Join(Tail(parts), sep)

\* str(n) for an integer n
RECURSIVE NatStr(_)
NatStr(n) ==
    IF n < 10 THEN <<DigitChars[n + 1]>>
    ELSE NatStr(n \div 10) \o <<DigitChars[(n % 10) + 1]>>
IntStr(n) == IF n < 0 THEN <<"-">> \o NatStr(0 - n) ELSE NatStr(n)

\* re.sub(r'C{m,}', rep, s) for a character class C: every maximal run of
\* at least m characters of the class becomes the one character rep
ReSubRuns(s, cls, m, rep) ==
    LET RunStart(i) == SkipBack(s, i, cls) + 1
        RunEnd(i) == SkipWhile(s, i, cls) - 1
        Replaced(i) == InClass(cls, s[i]) /\ RunEnd(i) - RunStart(i) + 1 >= m
        Keep(i) == ~Replaced(i) \/ i = RunStart(i)
        kept == SelectSeq(Indices(s), Keep)
    IN Tuple([k \in 1..Len(kept) |->
                 IF Replaced(kept[k]) THEN rep ELSE s[kept[k]]])

-----------------------------------------------------------------------------
(* SimpleRAGSystem._slugify *)

\* a slug that strips the underscores before the substitutions, not after
SlugifyStripFirst(text) ==
    LET s0 == StripClass(lower(text), ClsUnderscore)
        s1 == ReSubRuns(s0, ClsNotSlug, 1, "_")
    IN ReSubRuns(s1, ClsUnderscore, 2, "_")

_slugify(text) ==
    LET s0 == lower(text)
        s1 == ReSubRuns(s0, ClsNotSlug, 1, "_")
        s2 == ReSubRuns(s1, ClsUnderscore, 2, "_")
    IN StripClass(s2, ClsUnderscore)

-----------------------------------------------------------------------------
(* String literals of the source *)

L_Main == <<"m","a","i","n">>
L_Intro == <<"i","n","t","r","o">>
L_FaqAll == <<"f","a","q","_","a","l","l">>
L_Section == <<"s","e","c","t","i","o","n","_">>
L_Faq == <<"f","a","q","_">>
L_Product == <<"p","r","o","d","u","c","t","_">>
L_H2 == <<"#","#"," ">>
L_Blank == <<"\n","\n">>
L_Q == <<"Q",":"," ">>
L_A == <<"\n","\n","A",":"," ">>
L_Unknown == <<"U","n","k","n","o","w","n">>
L_NA == <<"N","/","A">>
L_Ellipsis == <<".",".",".">>
L_RowProduct == <<"P","r","o","d","u","c","t",":"," ">>
L_RowID == <<"I","D",":"," ">>
L_RowCategory == <<"C","a","t","e","g","o","r","y",":"," ">>
L_RowFormat == <<"F","o","r","m","a","t",":"," ">>
L_RowConcerns ==
    <<"T","a","r","g","e","t"," ","c","o","n","c","e","r","n","s",":"," ">>
L_RowHerbs == <<"K","e","y"," ","h","e","r","b","s",":"," ">>
L_RowContra ==
    <<"C","o","n","t","r","a","i","n","d","i","c","a","t","i","o","n","s",
      ":"," ">>
L_RowTags == <<"T","a","g","s",":"," ">>
L_NoInfo ==
    <<"N","o"," ","r","e","l","e","v","a","n","t"," ","i","n","f","o","r",
      "m","a","t","i","o","n"," ","f","o","u","n","d"," ","i","n"," ","t",
      "h","e"," ","K","e","r","a","l","a"," ","A","y","u","r","v","e","d",
      "a"," ","c","o","r","p","u","s",".">>

-----------------------------------------------------------------------------
(* Python values and dicts.  A dict is the sequence of its items in        *)
(* insertion order; a value is a str or an int.                            *)

Str(s) == [isint |-> FALSE, s |-> s, n |-> 0]
Int_(n) == [isint |-> TRUE, s |-> <<>>, n |-> n]

\* str(v), also what an f-string does with v
str(v) == IF v.isint THEN IntStr(v.n) ELSE v.s

\* bool(v)
Truthy(v) == IF v.isint THEN v.n # 0 ELSE v.s # <<>>

DictHas(d, k) == \E i \in 1..Len(d) : d[i].k = k
DictAt(d, k) == d[CHOOSE i \in 1..Len(d) : d[i].k = k].v

\* d.get(k, default)
DictGet(d, k, default) == IF DictHas(d, k) THEN DictAt(d, k) ELSE default

\* d[k] = v: an old key keeps its place, a new key goes last
DictSet(d, k, v) ==
    IF DictHas(d, k)
    THEN [i \in 1..Len(d) |-> IF d[i].k = k THEN [k |-> k, v |-> v] ELSE d[i]]
    ELSE Append(d, [k |-> k, v |-> v])

\* {**a, **b}
RECURSIVE DictMerge(_, _)
DictMerge(a, b) ==
    IF b = <<>> THEN a
    ELSE DictMerge(DictSet(a, b[1].k, b[1].v), Tail(b))

\* the values of d, in order
DictValues(d) == [i \in 1..Len(d) |-> d[i].v]

-----------------------------------------------------------------------------
(* The dataclasses Document and Citation *)

Document(doc_id, section_id, content, metadata) ==
    [doc_id |-> doc_id, section_id |-> section_id,
     content |-> content, metadata |-> metadata]

Citation(doc_id, section_id, snippet) ==
    [doc_id |-> doc_id, section_id |-> section_id, snippet |-> snippet]

-----------------------------------------------------------------------------
(* SimpleRAGSystem._chunk_markdown *)

\* re.split(r'\r?\n##\s+', ...): the index of the last character of a match
\* of the separator that starts at i, or 0 if none starts there
MdSepEnd(s, i) ==
    LET j == IF s[i] = "\r" THEN i + 1 ELSE i
    IN IF /\ StartsAt(s, j, <<"\n", "#", "#">>)
          /\ j + 3 <= Len(s)
          /\ IsSpace(s[j + 3])
       THEN SkipWhile(s, j + 3, ClsSpace) - 1
       ELSE 0

\* the pieces of s[i..] between the matches of the separator, leftmost
\* match first, each search going on where the last match ended
RECURSIVE MdSplitFrom(_, _, _)
MdSplitFrom(s, i, acc) ==
    LET found == {j \in i..Len(s) : MdSepEnd(s, j) > 0}
        j == SetMin(found)
    IN IF found = {} THEN Append(acc, SubSeq(s, i, Len(s)))
       ELSE MdSplitFrom(s, MdSepEnd(s, j) + 1,
                        Append(acc, SubSeq(s, i, j - 1)))

\* re.split(r'\r?\n##\s+', content)
MdSplit(content) == MdSplitFrom(content, 1, <<>>)

\* section.split('\n', 1)
SplitFirstLine(section) ==
    LET nl == {i \in 1..Len(section) : section[i] = "\n"}
    IN IF nl = {} THEN <<section>>
       ELSE <<SubSeq(section, 1, SetMin(nl) - 1),
              SubSeq(section, SetMin(nl) + 1, Len(section))>>

\* the chunk of the i-th heading section
MdSectionChunk(doc_id, section, i, metadata) ==
    LET lines == SplitFirstLine(section)
        section_title == strip(lines[1])
        section_content == IF Len(lines) > 1 THEN strip(lines[2]) ELSE <<>>
        full_content == L_H2 \o section_title \o L_Blank \o section_content
    IN Document(doc_id,
                L_Section \o IntStr(i) \o <<"_">> \o _slugify(section_title),
                full_content,
                DictSet(metadata, "section_title", Str(section_title)))

_chunk_markdown(doc_id, content, metadata) ==
    LET sections == MdSplit(content)
        intro == strip(sections[1])
        introChunks == IF intro # <<>>
                       THEN <<Document(doc_id, L_Intro, intro, metadata)>>
                       ELSE <<>>
    IN introChunks \o
       [i \in 1..(Len(sections) - 1) |->
            MdSectionChunk(doc_id, sections[i + 1], i, metadata)]

-----------------------------------------------------------------------------
(* SimpleRAGSystem._chunk_faq *)

\* the index after a match of  ##\s*\d+\.  that starts at p, or 0
FaqHeadEnd(s, p) ==
    IF ~StartsAt(s, p, <<"#", "#">>) THEN 0
    ELSE LET a == SkipWhile(s, p + 2, ClsSpace)
             b == SkipWhile(s, a, ClsDigit)
         IN IF b > a /\ b <= Len(s) /\ s[b] = "." THEN b + 1 ELSE 0

\* the lookahead (?=\n##\s*\d+\.|\Z) at index e
FaqLookahead(s, e) ==
    \/ e = Len(s) + 1
    \/ e <= Len(s) /\ s[e] = "\n" /\ FaqHeadEnd(s, e + 1) > 0

\* the match of the whole pattern that starts at p, as the backtracking
\* matcher finds it: \s* greedy, (.+?) and (.*?) lazy.  [ok, qs, qe, as, ae]:
\* question = s[qs..qe-1], answer = s[as..ae-1], the match ends before ae.
FaqMatchAt(s, p) ==
    LET h == FaqHeadEnd(s, p)
        wsEnd == SkipWhile(s, h, ClsSpace)
        \* indices of a "\n\n" that can end the question
        gaps == {q \in 1..(Len(s) - 1) : s[q] = "\n" /\ s[q + 1] = "\n"}
        \* starts of the question the greedy \s* can leave, with a "\n\n"
        \* at least one character later
        starts == {c \in h..wsEnd : \E q \in gaps : q > c}
        qs == SetMax(starts)
        qe == SetMin({q \in gaps : q > qs})
        ae == SetMin({e \in (qe + 2)..(Len(s) + 1) : FaqLookahead(s, e)})
    IN IF h = 0 \/ starts = {}
       THEN [ok |-> FALSE, qs |-> 0, qe |-> 0, as |-> 0, ae |-> 0]
       ELSE [ok |-> TRUE, qs |-> qs, qe |-> qe, as |-> qe + 2, ae |-> ae]

\* pattern.findall(content): the (question, answer) pairs, left to right
RECURSIVE FaqFindAll(_, _, _)
FaqFindAll(s, p, acc) ==
    LET found == {j \in p..Len(s) : FaqMatchAt(s, j).ok}
        m == FaqMatchAt(s, SetMin(found))
    IN IF found = {} THEN acc
       ELSE FaqFindAll(s, m.ae,
                Append(acc, [question |-> SubSeq(s, m.qs, m.qe - 1),
                             answer |-> SubSeq(s, m.as, m.ae - 1)]))

\* the chunk of the i-th question/answer pair
FaqPairChunk(doc_id, qa, i, metadata) ==
    Document(doc_id,
             L_Faq \o IntStr(i) \o <<"_">> \o _slugify(qa.question),
             L_Q \o strip(qa.question) \o L_A \o strip(qa.answer),
             DictSet(DictSet(metadata, "faq_number", Int_(i)),
                     "question", Str(strip(qa.question))))

_chunk_faq(doc_id, content, metadata) ==
    LET matches == FaqFindAll(content, 1, <<>>)
    IN IF matches = <<>>
       THEN <<Document(doc_id, L_FaqAll, content, metadata)>>
       ELSE [i \in 1..Len(matches) |->
                FaqPairChunk(doc_id, matches[i], i, metadata)]

-----------------------------------------------------------------------------
(* SimpleRAGSystem._format_product_row and _chunk_csv *)

\* ord(c), as far as the model's hash needs it
Ord(c) ==
    IF c \in LowerSet
    THEN 96 + (CHOOSE i \in DOMAIN LowerChars : LowerChars[i] = c)
    ELSE IF c \in UpperSet
    THEN 64 + (CHOOSE i \in DOMAIN UpperChars : UpperChars[i] = c)
    ELSE IF c \in DigitSet
    THEN 47 + (CHOOSE i \in DOMAIN DigitChars : DigitChars[i] = c)
    ELSE 32

\* hash(s) of a str: a function of the string that is 0 on '' and may be
\* negative.  CPython's value depends on the process's hash seed; the model
\* fixes one function, as one process does.
RECURSIVE HashAcc(_, _, _)
HashAcc(s, i, h) ==
    IF i > Len(s) THEN h
    ELSE HashAcc(s, i + 1, (h * 31 + Ord(s[i])) % 65536)
hash(s) ==
    LET h == HashAcc(s, 1, 0)
    IN IF h >= 32768 THEN h - 65536 ELSE h

_format_product_row(row) ==
    LET parts == <<
            L_RowProduct \o str(DictGet(row, "name", Str(L_Unknown))),
            L_RowID \o str(DictGet(row, "product_id", Str(L_NA))),
            L_RowCategory \o str(DictGet(row, "category", Str(L_NA))),
            L_RowFormat \o str(DictGet(row, "format", Str(L_NA))),
            L_RowConcerns \o str(DictGet(row, "target_concerns", Str(L_NA))),
            L_RowHerbs \o str(DictGet(row, "key_herbs", Str(L_NA))),
            L_RowContra \o str(DictGet(row, "contraindications_short", Str(L_NA))),
            L_RowTags \o str(DictGet(row, "internal_tags", Str(L_NA))) >>
    IN Join(parts, <<"\n">>)

\* row.get('product_id') or str(hash(row.get('name', '')))
ProdId(row) ==
    IF DictHas(row, "product_id") /\ Truthy(DictAt(row, "product_id"))
    THEN str(DictAt(row, "product_id"))
    ELSE IntStr(hash(DictGet(row, "name", Str(<<>>)).s))

\* the chunk of one row
CsvRowChunk(doc_id, row, metadata) ==
    Document(doc_id, L_Product \o ProdId(row), _format_product_row(row),
             DictMerge(metadata, row))

_chunk_csv(doc_id, content, metadata) ==
    [i \in 1..Len(content) |-> CsvRowChunk(doc_id, content[i], metadata)]

-----------------------------------------------------------------------------
(* SimpleRAGSystem._tokenize *)

\* the last index of the maximal run of \w characters that starts at i
WordEnd(s, i) == SkipWhile(s, i, ClsWord) - 1

\* the tokens of s[i..], left to right
RECURSIVE TokensFrom(_, _, _)
TokensFrom(s, i, acc) ==
    LET j == SkipWhile(s, i, ClsNotWord)
        e == WordEnd(s, j)
    IN IF j > Len(s) THEN acc
       ELSE TokensFrom(s, e + 1, Append(acc, SubSeq(s, j, e)))

\* re.findall(r'\b\w+\b', text.lower()): the maximal runs of \w characters
_tokenize(text) == TokensFrom(lower(text), 1, <<>>)

-----------------------------------------------------------------------------
(* SimpleRAGSystem._score_document.  A score is the exact rational         *)
(* num/den, den > 0 (the rounding of float arithmetic is not modelled).    *)

Rat(num, den) == [num |-> num, den |-> den]
RatLess(a, b) == a.num * b.den < b.num * a.den
RatEq(a, b) == a.num * b.den = b.num * a.den
RatPos(a) == a.num > 0

\* list.count(x)
Count(seq, x) == Cardinality({i \in 1..Len(seq) : seq[i] = x})

\* sum of f(i) over i in 1..n
RECURSIVE SumTo(_, _)
SumTo(f, n) == IF n = 0 THEN 0 ELSE f[n] + SumTo(f, n - 1)

\* ' '.join(str(v) for v in doc.metadata.values()).lower()
MetadataText(metadata) ==
    LET vals == DictValues(metadata)
    IN lower(Join([i \in 1..Len(vals) |-> str(vals[i])], <<" ">>))

_score_document(doc, query_terms, query_raw) ==
    LET doc_text == lower(doc.content)
        doc_tokens == _tokenize(doc_text)
        n == Len(doc_tokens)
        m == Len(query_terms)
        tf == Tuple([i \in 1..m |-> Count(doc_tokens, query_terms[i])])
        \* sum of tf / len(doc_tokens) * 10.0, times n
        tfTimesN == 10 * SumTo(tf, m)
        matching_terms == Cardinality({i \in 1..m : tf[i] > 0})
        \* coverage * 5.0, times m (0.0 for an empty query)
        covTimesM == 5 * matching_terms
        phrase == IF Contains(doc_text, query_raw) THEN 15 ELSE 0
        metadata_text == MetadataText(doc.metadata)
        boost == 3 * Cardinality({i \in 1..m :
                                    Contains(metadata_text, query_terms[i])})
        mm == IF m = 0 THEN 1 ELSE m
    IN IF n = 0 THEN Rat(0, 1)
       ELSE Rat(tfTimesN * mm + covTimesM * n + (phrase + boost) * n * mm,
                n * mm)

-----------------------------------------------------------------------------
(* SimpleRAGSystem.retrieve.  An element of the result is a (doc, score)   *)
(* tuple; doc is a reference to a Document of self.documents, modelled by  *)
(* its index in the chunk store.                                           *)

\* an insertion that puts x before the elements of equal score (the order
\* of an ascending sort that is then reversed)
InsertDescUnstable(sorted, x) ==
    LET before == {i \in 1..Len(sorted) : RatLess(x.score, sorted[i].score)}
        k == IF before = {} THEN 0 ELSE SetMax(before)
    IN SubSeq(sorted, 1, k) \o <<x>> \o SubSeq(sorted, k + 1, Len(sorted))

\* scored_docs with x put after every element whose score is not lower
InsertDesc(sorted, x) ==
    LET before == {i \in 1..Len(sorted) : ~RatLess(sorted[i].score, x.score)}
        k == IF before = {} THEN 0 ELSE SetMax(before)
    IN SubSeq(sorted, 1, k) \o <<x>> \o SubSeq(sorted, k + 1, Len(sorted))

RECURSIVE SortFrom(_, _, _)
SortFrom(seq, i, acc) ==
    IF i > Len(seq) THEN acc
    ELSE SortFrom(seq, i + 1, InsertDesc(acc, seq[i]))

\* scored_docs.sort(key=lambda x: x[1], reverse=True): stable, descending
SortByScoreDesc(seq) == SortFrom(seq, 1, <<>>)

\* the test  score >= 0
MatchesNonNegative(score) == score.num >= 0

\* the test  score > 0  of retrieve
Matches(score) == RatPos(score)

\* the (doc, score) tuples of the chunks that match, in store order
ScoredDocs(store, query) ==
    LET query_terms == _tokenize(lower(query))
        all == [i \in 1..Len(store) |->
                   [ref |-> i,
                    score |-> _score_document(store[i], query_terms,
                                              lower(query))]]
        HasScore(x) == Matches(x.score)
    IN SelectSeq(all, HasScore)

\* retrieve on an object whose fields are store and loaded; top_k >= 0
retrieve(store, loaded, query, top_k) ==
    IF ~loaded THEN <<>>
    ELSE Slice(SortByScoreDesc(ScoredDocs(store, query)), 0, top_k)

-----------------------------------------------------------------------------
(* SimpleRAGSystem._generate_answer and answer_user_query *)

\* top_k of the retrieve call of answer_user_query
AnswerTopK == 4
\* longest content put whole into a context block
ContextLimit == 1500
\* length of a citation's snippet
SnippetLimit == 120
\* number of retrieved chunks the demo answer is built from
AnswerSources == 2
\* a sentence is meaningful if it is longer than this
MinSentence == 40
\* length of the fallback answer
FallbackLimit == 400
\* number of retrieved chunks from which the confidence is 'high'
HighConfidence == 2

IsSentenceEnd(c) == c \in {".", "!", "?"}

\* the pieces of s[i..] between the matches of (?<=[.!?])\s+
RECURSIVE SentSplitFrom(_, _, _)
SentSplitFrom(s, i, acc) ==
    LET found == {j \in i..Len(s) :
                    j > 1 /\ IsSpace(s[j]) /\ IsSentenceEnd(s[j - 1])}
        j == SetMin(found)
    IN IF found = {} THEN Append(acc, SubSeq(s, i, Len(s)))
       ELSE SentSplitFrom(s, SkipWhile(s, j, ClsSpace),
                          Append(acc, SubSeq(s, i, j - 1)))

\* re.split(r'(?<=[.!?])\s+', text)
SentSplit(text) == SentSplitFrom(text, 1, <<>>)

\* [s.strip() for s in sentences if len(s.strip()) > 40]
Meaningful(content) ==
    LET sentences == SentSplit(strip(content))
        stripped == [i \in 1..Len(sentences) |-> strip(sentences[i])]
        LongEnough(x) == Len(x) > MinSentence
    IN SelectSeq(stripped, LongEnough)

_generate_answer(store, retrieved) ==
    LET top == Slice(retrieved, 0, AnswerSources)
        HasSentence(x) == Meaningful(store[x.ref].content) # <<>>
        withSentence == SelectSeq(top, HasSentence)
        parts == [i \in 1..Len(withSentence) |->
                     Meaningful(store[withSentence[i].ref].content)[1]]
        topdoc == store[retrieved[1].ref].content
    IN IF parts # <<>> THEN Join(parts, <<" ">>)
       ELSE Slice(topdoc, 0, FallbackLimit) \o
            (IF Len(topdoc) > FallbackLimit THEN L_Ellipsis ELSE <<>>)

\* the snippet of the context block of a chunk
ContextSnippet(content) ==
    IF Len(content) <= ContextLimit THEN content
    ELSE Slice(content, 0, ContextLimit) \o L_Ellipsis

\* the Citation of a retrieved chunk
CitationOf(doc) ==
    Citation(doc.doc_id, doc.section_id,
             Slice(ContextSnippet(doc.content), 0, SnippetLimit))

\* a label that needs more than 2 chunks to be 'high'
ConfidenceStrict(retrieved) ==
    IF Len(retrieved) > HighConfidence THEN "high" ELSE "medium"

\* the confidence label of a non-empty retrieval
Confidence(retrieved) ==
    IF Len(retrieved) >= HighConfidence THEN "high" ELSE "medium"

\* an early return that carries the label of the other branch
NoInfoAnswerMedium ==
    [answer |-> L_NoInfo, citations |-> <<>>, confidence |-> "medium"]

\* the return value of answer_user_query when nothing was retrieved
NoInfoAnswer ==
    [answer |-> L_NoInfo, citations |-> <<>>, confidence |-> "low"]

\* answer_user_query on an object whose fields are store and loaded.  The
\* context string it builds is passed to _generate_answer, which never
\* reads it, and is left out.
answer_user_query(store, loaded, query) ==
    LET retrieved == retrieve(store, loaded, query, AnswerTopK)
    IN IF retrieved = <<>> THEN NoInfoAnswer
       ELSE [answer |-> _generate_answer(store, retrieved),
             citations |-> [i \in 1..Len(retrieved) |->
                               CitationOf(store[retrieved[i].ref])],
             confidence |-> Confidence(retrieved)]

-----------------------------------------------------------------------------
(* SimpleRAGSystem.load_corpus.  A document of the argument is a dict,     *)
(* modelled by a record whose fields are the dict's keys, so that a key    *)
(* may be missing.                                                         *)

HasKey(doc, k) == k \in DOMAIN doc

\* doc.get('type', 'text')
DocType(doc) == IF HasKey(doc, "type") THEN doc.type ELSE "text"
\* doc.get('metadata', {})
DocMetadata(doc) == IF HasKey(doc, "metadata") THEN doc.metadata ELSE <<>>

\* doc['id'] or doc['content'] raises KeyError
DocRaises(doc) == ~HasKey(doc, "id") \/ ~HasKey(doc, "content")

\* the chunks of one document that has its keys
ChunksOf(doc) ==
    LET doc_type == DocType(doc)
        doc_id == doc.id
    IN IF doc_type = "markdown"
       THEN _chunk_markdown(doc_id, doc.content, DocMetadata(doc))
       ELSE IF doc_type = "faq"
       THEN _chunk_faq(doc_id, doc.content, DocMetadata(doc))
       ELSE IF doc_type = "csv"
       THEN _chunk_csv(doc_id, doc.content, DocMetadata(doc))
       ELSE <<Document(doc_id, L_Main, doc.content, DocMetadata(doc))>>

\* the loop of load_corpus from the i-th document on: the chunk store it
\* leaves, and whether it ended by an exception
RECURSIVE LoadFrom(_, _, _)
LoadFrom(docs, i, store) ==
    IF i > Len(docs) THEN [documents |-> store, raised |-> FALSE]
    ELSE IF DocRaises(docs[i]) THEN [documents |-> store, raised |-> TRUE]
    ELSE LoadFrom(docs, i + 1, store \o ChunksOf(docs[i]))

-----------------------------------------------------------------------------
(* The inputs of the model: document lists for load_corpus and queries *)

\* 'a b.'
T_Plain == <<"a"," ","b",".">>
\* 'a\n## B c\nb a\n## a'
T_Markdown ==
    <<"a","\n","#","#"," ","B"," ","c","\n","b"," ","a","\n","#","#"," ","a">>
\* '## 1. a b?\n\nc\n## 2. B\n\na'
T_Faq ==
    <<"#","#"," ","1","."," ","a"," ","b","?","\n","\n","c","\n","#","#"," ",
      "2","."," ","B","\n","\n","a">>
\* 'b c'
T_FaqLoose == <<"b"," ","c">>
\* 'a b'
T_NameShort == <<"a"," ","b">>
\* 'Triphala Capsules'
T_NameLong ==
    <<"T","r","i","p","h","a","l","a"," ","C","a","p","s","u","l","e","s">>
\* 'b'
T_NameOnly == <<"b">>
\* 'p1'
T_ProdId == <<"p","1">>
\* 'a'
T_CatA == <<"a">>
\* 'c'
T_CatC == <<"c">>
\* ''
Q_Empty == <<>>
\* 'Capsules a'
Q_CapsA == <<"C","a","p","s","u","l","e","s"," ","a">>
\* 'zz'
Q_None == <<"z","z">>

Item(k, s) == [k |-> k, v |-> Str(s)]

\* a document without 'type' (the plain path), with metadata
DocPlain ==
    [id |-> "d1", content |-> T_Plain,
     metadata |-> <<Item("category", T_CatA)>>]
\* a document of an unrecognized type whose content is the empty string
DocPlainEmpty == [id |-> "d2", type |-> "text", content |-> <<>>]
\* a markdown document: intro and two headings, the second without a body
DocMarkdown ==
    [id |-> "d1", type |-> "markdown", content |-> T_Markdown,
     metadata |-> <<Item("category", T_CatC)>>]
\* an FAQ document of two numbered blocks
DocFaq ==
    [id |-> "d3", type |-> "faq", content |-> T_Faq,
     metadata |-> <<Item("category", T_CatC)>>]
\* an FAQ document without a numbered block (the fallback path)
DocFaqLoose == [id |-> "d3", type |-> "faq", content |-> T_FaqLoose]
\* a tabular document: two rows of the same product_id, one row without
DocCsv ==
    [id |-> "d4", type |-> "csv",
     content |-> << <<Item("product_id", T_ProdId), Item("name", T_NameShort),
                      Item("category", T_CatC)>>,
                    <<Item("product_id", T_ProdId), Item("name", T_NameLong)>>,
                    <<Item("name", T_NameOnly)>> >>,
     metadata |-> <<Item("category", T_CatA)>>]
\* a document without 'id'
DocNoId == [type |-> "text", content |-> T_Plain]
\* a document without 'content'
DocNoContent == [id |-> "d5"]

\* the document lists load_corpus is called with
Corpora == <<
    <<>>,
    <<DocPlain, DocPlainEmpty>>,
    <<DocMarkdown, DocFaq, DocFaqLoose>>,
    <<DocCsv>>,
    <<DocPlain, DocNoId>>,
    <<DocNoContent>> >>

\* the queries retrieve and answer_user_query are called with; the last
\* one matches no document
Queries == <<Q_Empty, Q_CapsA, Q_None>>

\* the values of top_k retrieve is called with
TopKs == {0, 1, 2}

-----------------------------------------------------------------------------
(* The state machine of a SimpleRAGSystem object *)

NoAnswer == [answer |-> <<>>, citations |-> <<>>, confidence |-> "none"]

Call(op, raised, arg, query, top_k, result, answer) ==
    [op |-> op, raised |-> raised, arg |-> arg, query |-> query,
     top_k |-> top_k, result |-> result, answer |-> answer]

\* __init__
Init ==
    /\ documents = <<>>
    /\ corpus_loaded = FALSE
    /\ last = Call("__init__", FALSE, 0, <<>>, 0, <<>>, NoAnswer)
    /\ ncalls = 0
    /\ slug_pc = "idle"
    /\ slug_text = <<>>
    /\ slug_once = <<>>
    /\ slug_twice = <<>>

\* load_corpus(Corpora[k]): the chunks of each document are appended as the
\* loop reaches it; the flag is set after the loop, so not when a document
\* raises KeyError
LoadCorpus(k) ==
    LET r == LoadFrom(Corpora[k], 1, documents)
    IN /\ ncalls < MaxLoads
       /\ Len(r.documents) <= MaxChunks
       /\ documents' = r.documents
       /\ corpus_loaded' = IF r.raised THEN corpus_loaded ELSE TRUE
       /\ last' = Call("load_corpus", r.raised, k, <<>>, 0, <<>>, NoAnswer)
       /\ ncalls' = ncalls + 1
       /\ UNCHANGED slugvars

\* retrieve(query, top_k)
Retrieve(query, top_k) ==
    /\ last' = Call("retrieve", FALSE, 0, query, top_k,
                    retrieve(documents, corpus_loaded, query, top_k),
                    NoAnswer)
    /\ UNCHANGED <<documents, corpus_loaded, ncalls>>
    /\ UNCHANGED slugvars

\* answer_user_query(query)
AnswerUserQuery(query) ==
    /\ last' = Call("answer_user_query", FALSE, 0, query, 0, <<>>,
                    answer_user_query(documents, corpus_loaded, query))
    /\ UNCHANGED <<documents, corpus_loaded, ncalls>>
    /\ UNCHANGED slugvars

Next ==
    \/ \E k \in 1..Len(Corpora) : LoadCorpus(k)
    \/ \E q \in 1..Len(Queries), top_k \in TopKs :
           Retrieve(Queries[q], top_k)
    \/ \E q \in 1..Len(Queries) : AnswerUserQuery(Queries[q])

Spec == Init /\ [][Next]_vars

-----------------------------------------------------------------------------
(* The round trip of _slugify over every short string *)

SlugAlphabet == {"a", "B", "1", "_", "-", " "}
SlugInputs == UNION {[1..n -> SlugAlphabet] : n \in 0..MaxSlugLen}

SlugInit ==
    /\ documents = <<>>
    /\ corpus_loaded = FALSE
    /\ last = Call("__init__", FALSE, 0, <<>>, 0, <<>>, NoAnswer)
    /\ ncalls = 0
    /\ slug_pc = "start"
    /\ slug_text \in SlugInputs
    /\ slug_once = <<>>
    /\ slug_twice = <<>>

SlugifyOnce ==
    /\ slug_pc = "start"
    /\ slug_once' = _slugify(slug_text)
    /\ slug_pc' = "once"
    /\ UNCHANGED <<slug_text, slug_twice>>
    /\ UNCHANGED ragvars

SlugifyTwice ==
    /\ slug_pc = "once"
    /\ slug_twice' = _slugify(slug_once)
    /\ slug_pc' = "twice"
    /\ UNCHANGED <<slug_text, slug_once>>
    /\ UNCHANGED ragvars

SlugNext == SlugifyOnce \/ SlugifyTwice

SlugSpec == SlugInit /\ [][SlugNext]_vars

-----------------------------------------------------------------------------
(* Properties *)

\* the scores of the chunks of the store for the query of the last call
LastScores ==
    LET q == lower(last.query)
        terms == _tokenize(q)
    IN Tuple([j \in 1..Len(documents) |->
                 _score_document(documents[j], terms, q)])

\* the references the last retrieve returned
LastRefs == {last.result[i].ref : i \in 1..Len(last.result)}

\* C1: after a load_corpus call that returned, the chunk store holds
\* exactly the chunks of the documents of that call, and none of an earlier
\* load.
C1_ReloadReplaces ==
    (last.op = "load_corpus" /\ ~last.raised) =>
        documents = LoadFrom(Corpora[last.arg], 1, <<>>).documents

\* C2: no two chunks of the chunk store have the same (doc_id, section_id).
C2_ChunkKeysUnique ==
    \A i, j \in 1..Len(documents) :
        i # j => \/ documents[i].doc_id # documents[j].doc_id
                 \/ documents[i].section_id # documents[j].section_id

\* C3: retrieve("", top_k) returns the empty sequence, and
\* answer_user_query("") the fixed no-information answer with no citation
\* and confidence 'low'.
C3_EmptyQueryNoMatches ==
    /\ (last.op = "retrieve" /\ last.query = <<>>) => last.result = <<>>
    /\ (last.op = "answer_user_query" /\ last.query = <<>>) =>
           /\ last.answer.answer = L_NoInfo
           /\ last.answer.citations = <<>>
           /\ last.answer.confidence = "low"

\* C4: while the chunk store is empty (load_corpus never called, or called
\* with no document), retrieve returns the empty sequence and
\* answer_user_query the fixed no-information answer with no citation and
\* confidence 'low'.
C4_NoChunksNoAnswer ==
    documents = <<>> =>
        /\ last.op = "retrieve" => last.result = <<>>
        /\ last.op = "answer_user_query" =>
               /\ last.answer.answer = L_NoInfo
               /\ last.answer.citations = <<>>
               /\ last.answer.confidence = "low"

\* C4 witness: load_corpus was called with the empty list and a non-empty
\* query was answered.
C4_Witness ==
    /\ last.op = "answer_user_query"
    /\ last.query # <<>>
    /\ corpus_loaded
    /\ documents = <<>>

\* C5: every pair retrieve returns has a score above 0, and a chunk whose
\* score is 0, or whose content has no token, is not returned.
C5_ScoreExclusion ==
    last.op = "retrieve" =>
        LET sc == LastScores
            refs == LastRefs
        IN /\ \A i \in 1..Len(last.result) :
                  last.result[i].score.num > 0 /\ last.result[i].score.den > 0
           /\ \A j \in 1..Len(documents) :
                  (sc[j].num = 0 \/ _tokenize(documents[j].content) = <<>>)
                      => j \notin refs

\* C5 witness: retrieve returned fewer chunks than top_k allows and left
\* out a chunk without tokens.
C5_Witness ==
    /\ last.op = "retrieve"
    /\ last.query # <<>>
    /\ last.result # <<>>
    /\ Len(last.result) < last.top_k
    /\ \E j \in 1..Len(documents) : _tokenize(documents[j].content) = <<>>

\* C6: the confidence is 'low' exactly when retrieve(query, 4) returns no
\* chunk, 'medium' exactly when it returns one, 'high' exactly when it
\* returns two or more; the citations are one per retrieved chunk, at most
\* 4, in the order of the ranking, each with the doc_id and section_id of
\* its chunk and a snippet of at most 120 characters.
C6_ConfidenceAndCitations ==
    last.op = "answer_user_query" =>
        LET r == retrieve(documents, corpus_loaded, last.query, 4)
            a == last.answer
        IN /\ a.confidence = "low" <=> Len(r) = 0
           /\ a.confidence = "medium" <=> Len(r) = 1
           /\ a.confidence = "high" <=> Len(r) >= 2
           /\ Len(a.citations) = Len(r)
           /\ Len(a.citations) <= 4
           /\ \A i \in 1..Len(a.citations) :
                  /\ a.citations[i].doc_id = documents[r[i].ref].doc_id
                  /\ a.citations[i].section_id = documents[r[i].ref].section_id
                  /\ Len(a.citations[i].snippet) <= 120

\* C6 witness: more than 4 chunks match, 4 are cited, and the content of
\* one of them was cut to 120 characters.
C6_Witness ==
    /\ last.op = "answer_user_query"
    /\ last.query # <<>>
    /\ last.answer.confidence = "high"
    /\ Len(last.answer.citations) = 4
    /\ Len(retrieve(documents, corpus_loaded, last.query, 5)) = 5
    /\ \E i \in 1..4 :
           LET r == retrieve(documents, corpus_loaded, last.query, 4)
           IN /\ Len(last.answer.citations[i].snippet) = 120
              /\ Len(documents[r[i].ref].content) > 120

\* C7: every chunk of the chunk store whose section_id is not 'faq_all'
\* has content that is not empty after trimming.
C7_ContentNonEmpty ==
    \A i \in 1..Len(documents) :
        documents[i].section_id # L_FaqAll => strip(documents[i].content) # <<>>

\* the result of _slugify has only characters of [a-z0-9_], no two
\* adjacent separators, and no separator at either end
WellFormedSlug(s) ==
    /\ \A i \in 1..Len(s) : s[i] \in SlugSet \cup {"_"}
    /\ \A i \in 1..(Len(s) - 1) : ~(s[i] = "_" /\ s[i + 1] = "_")
    /\ s # <<>> => s[1] # "_" /\ s[Len(s)] # "_"

\* C8: _slugify(_slugify(s)) = _slugify(s), and _slugify(s) has only
\* characters of [a-z0-9_], no two adjacent separators and no leading or
\* trailing separator.
C8_SlugIdempotent ==
    /\ slug_pc = "twice" => slug_twice = slug_once
    /\ slug_pc \in {"once", "twice"} => WellFormedSlug(slug_once)

\* C8 witness: a string that _slugify changed, into a slug with a
\* separator, was slugified twice.
C8_Witness ==
    /\ slug_pc = "twice"
    /\ slug_once # slug_text
    /\ \E i \in 1..Len(slug_once) : slug_once[i] = "_"

\* C9: retrieve returns the first top_k of the chunks of positive score
\* ordered by score descending, chunks of equal score in the order of the
\* chunk store: at most top_k elements, each a chunk of positive score with
\* its score, and no chunk left out that ranks before a returned one.
C9_RankingOrder ==
    last.op = "retrieve" /\ corpus_loaded =>
        LET r == last.result
            sc == LastScores
            positive == {j \in 1..Len(documents) : sc[j].num > 0}
            \* chunk a ranks before chunk b
            Before(a, b) ==
                \/ RatLess(sc[b], sc[a])
                \/ RatEq(sc[a], sc[b]) /\ a < b
        IN /\ Len(r) <= last.top_k
           /\ Len(r) = last.top_k \/ Len(r) = Cardinality(positive)
           /\ \A i \in 1..Len(r) :
                  /\ r[i].ref \in positive
                  /\ r[i].score = sc[r[i].ref]
           /\ \A i, j \in 1..Len(r) : i < j => Before(r[i].ref, r[j].ref)
           /\ \A m \in positive \ LastRefs :
                  \A i \in 1..Len(r) : Before(r[i].ref, m)

\* C9 witness: retrieve returned two chunks of equal score and left out a
\* chunk of positive score.
C9_Witness ==
    /\ last.op = "retrieve"
    /\ last.query # <<>>
    /\ Len(last.result) = 2
    /\ RatEq(last.result[1].score, last.result[2].score)
    /\ LET sc == LastScores
       IN \E j \in 1..Len(documents) : sc[j].num > 0 /\ j \notin LastRefs

\* C10: the chunk store is non-empty only if corpus_loaded is true.
C10_FlagInSync == documents # <<>> => corpus_loaded

====
